---- MODULE Spec2Model ----
(***************************************************************************)
(* Model of src/make_maze.py: MazeGenerator (randomised depth-first        *)
(* carving of an N x N grid, greedy wall densification guarded by a        *)
(* breadth-first connectivity check, projection of the wall matrices to    *)
(* box descriptors) and of main(), which builds the generator from the     *)
(* command-line values and writes the result.                              *)
(*                                                                         *)
(* Lengths are integers in units of 1/80 m, so that cell_size/2 and        *)
(* wall_thickness (0.05 m) are whole numbers: 1.0 m = 80.                  *)
(***************************************************************************)
EXTENDS Integers, Sequences, FiniteSets, TLC

\* Largest grid_size (--size) the model explores.
MaxGridSize == 3

\* Largest min_walls (--min-walls) the model explores.
MaxMinWalls == 5

\* cell_size (--cell-size) values explored: 0 m, 0.5 m and 1.0 m (the default).
CellSizes == {0, 40, 80}

\* The (grid_size, cell_size, min_walls) triples main() is run with: every
\* grid size and wall target up to the bounds with the default cell size, and
\* every combination of the small values, which include the ones the
\* interface forbids (grid_size <= 0, cell_size <= 0, min_walls < 0).
Configs ==
    ((1..MaxGridSize) \X {80} \X (0..MaxMinWalls))
    \cup (((0 - 1)..2) \X CellSizes \X ((0 - 1)..2))

\* The interpreter's recursion limit (sys.getrecursionlimit() is 1000 unless
\* the program raises it, and make_maze.py never does), and the frames already
\* on the stack when _dfs_carve is first called: the module, main(),
\* generate_maze and _generate_connected_maze_dfs.
RecursionLimit == 1000
FramesBelowCarve == 4

\* self.wall_height = 0.5 and self.wall_thickness = 0.05, in 1/80 m.
wall_height == 40
wall_thickness == 4

VARIABLES
    grid_size,          \* self.grid_size
    cell_size,          \* self.cell_size
    min_walls,          \* self.min_walls
    horizontal_walls,   \* self.horizontal_walls[row][col], as [<<row, col>> -> BOOLEAN]
    vertical_walls,     \* self.vertical_walls[row][col], as [<<row, col>> -> BOOLEAN]
    pc,                 \* position in main() / generate_maze()
    visited,            \* _generate_connected_maze_dfs: cells whose visited[row][col] is True
    stack,              \* active _dfs_carve frames, innermost last
    carved,             \* the wall matrices as they were when carving returned
    current_inner_walls,\* generate_maze: result of _count_inner_walls()
    num_walls_to_add,   \* _add_additional_walls: its argument
    removable_paths,    \* _add_additional_walls: candidates the for loop has not taken yet
    candidate,          \* _add_additional_walls: the loop variable (path_type, row, col)
    added,              \* _add_additional_walls: added
    connected,          \* what the last call of _is_all_connected returned
    warned,             \* the warning of line 161 has been printed
    walls,              \* the list generate_maze returns
    summary,            \* the counts save_to_sdf prints
    file_written,       \* save_to_sdf has written self.output_file
    rng                 \* the random module's generator, as far as the run depends on it

cfgVars == <<grid_size, cell_size, min_walls>>
wallVars == <<horizontal_walls, vertical_walls>>
carveVars == <<visited, stack, carved>>
densVars == <<current_inner_walls, num_walls_to_add, removable_paths, candidate, added,
              connected, warned>>
outVars == <<walls, summary, file_written>>

vars == <<cfgVars, wallVars, pc, carveVars, densVars, outVars, rng>>

None == <<>>

Max(a, b) == IF a >= b THEN a ELSE b

----------------------------------------------------------------------------
(* The random module                                                        *)

\* main() without --seed: the generator is seeded by the system, every draw
\* can have any outcome, and nothing is kept of it.
Unseeded == [mode |-> "free", made |-> <<>>, tape |-> <<>>, first |-> None]

\* main() with --seed (lines 341-342), first run: the outcomes of the draws
\* are those the seed fixes, whatever they are; made lists them.
Seeded == [mode |-> "record", made |-> <<>>, tape |-> <<>>, first |-> None]

\* One outcome d of random.randint or random.shuffle.  In a later run with the
\* same seed (mode "replay") the generator repeats the outcomes of the first
\* run, which tape holds, in their order.
Draw(d) ==
    CASE rng.mode = "free" -> rng' = rng
      [] rng.mode = "record" -> rng' = [rng EXCEPT !.made = Append(@, d)]
      [] rng.mode = "replay" ->
            /\ rng.tape # <<>>
            /\ d = Head(rng.tape)
            /\ rng' = [rng EXCEPT !.tape = Tail(@)]

----------------------------------------------------------------------------
(* Wall matrices                                                            *)

\* [[True] * grid_size for _ in range(grid_size + 1)]
InitHorizontalWalls(N) == [p \in (0..N) \X (0..(N - 1)) |-> TRUE]

\* [[True] * (grid_size + 1) for _ in range(grid_size)]
InitVerticalWalls(N) == [p \in (0..(N - 1)) \X (0..N) |-> TRUE]

\* Interior positions: the ranges of the loops of _count_inner_walls and
\* _add_additional_walls.
InnerHorizontal(N) == (1..(N - 1)) \X (0..(N - 1))
InnerVertical(N) == (0..(N - 1)) \X (1..(N - 1))

\* CountInnerWalls with the horizontal loop starting at row 0, the top
\* boundary row.
CountInnerWallsFromRowZero(hw, vw, N) ==
    Cardinality({p \in (0..(N - 1)) \X (0..(N - 1)) : hw[p]})
  + Cardinality({p \in InnerVertical(N) : vw[p]})

\* _count_inner_walls
CountInnerWalls(hw, vw, N) ==
    Cardinality({p \in InnerHorizontal(N) : hw[p]})
  + Cardinality({p \in InnerVertical(N) : vw[p]})

----------------------------------------------------------------------------
(* _is_all_connected: breadth-first search from (0, 0)                      *)

\* One neighbour test of the while body: when the test passes the neighbour is
\* marked, appended and counted.  s = [queue, visited, count].
Visit(s, ok, cell) ==
    IF ok /\ cell \notin s.visited
    THEN [queue |-> Append(s.queue, cell),
          visited |-> s.visited \cup {cell},
          count |-> s.count + 1]
    ELSE s

\* BfsBody with the rightward test reading no wall entry.
BfsBodyRightUnchecked(s, hw, vw, N) ==
    LET row == Head(s.queue)[1]
        col == Head(s.queue)[2]
        s0 == [s EXCEPT !.queue = Tail(s.queue)]
        s1 == Visit(s0, row > 0 /\ ~hw[<<row, col>>], <<row - 1, col>>)
        s2 == Visit(s1, row < N - 1 /\ ~hw[<<row + 1, col>>], <<row + 1, col>>)
        s3 == Visit(s2, col > 0 /\ ~vw[<<row, col>>], <<row, col - 1>>)
        s4 == Visit(s3, col < N - 1, <<row, col + 1>>)
    IN s4

\* BfsBody with the downward test reading no wall entry.
BfsBodyDownUnchecked(s, hw, vw, N) ==
    LET row == Head(s.queue)[1]
        col == Head(s.queue)[2]
        s0 == [s EXCEPT !.queue = Tail(s.queue)]
        s1 == Visit(s0, row > 0 /\ ~hw[<<row, col>>], <<row - 1, col>>)
        s2 == Visit(s1, row < N - 1, <<row + 1, col>>)
        s3 == Visit(s2, col > 0 /\ ~vw[<<row, col>>], <<row, col - 1>>)
        s4 == Visit(s3, col < N - 1 /\ ~vw[<<row, col + 1>>], <<row, col + 1>>)
    IN s4

\* The body of the while loop for the cell taken by popleft(): up, down,
\* left, right, in that order.
BfsBody(s, hw, vw, N) ==
    LET row == Head(s.queue)[1]
        col == Head(s.queue)[2]
        s0 == [s EXCEPT !.queue = Tail(s.queue)]
        s1 == Visit(s0, row > 0 /\ ~hw[<<row, col>>], <<row - 1, col>>)
        s2 == Visit(s1, row < N - 1 /\ ~hw[<<row + 1, col>>], <<row + 1, col>>)
        s3 == Visit(s2, col > 0 /\ ~vw[<<row, col>>], <<row, col - 1>>)
        s4 == Visit(s3, col < N - 1 /\ ~vw[<<row, col + 1>>], <<row, col + 1>>)
    IN s4

RECURSIVE BfsLoop(_, _, _, _)
BfsLoop(s, hw, vw, N) ==
    IF s.queue = <<>> THEN s
    ELSE BfsLoop(BfsBody(s, hw, vw, N), hw, vw, N)

\* IsAllConnected with count started at 0.
IsAllConnectedCountFromZero(hw, vw, N) ==
    LET s == BfsLoop([queue |-> <<(<<0, 0>>)>>, visited |-> {<<0, 0>>}, count |-> 0],
                     hw, vw, N)
    IN s.count = N * N

IsAllConnected(hw, vw, N) ==
    LET s == BfsLoop([queue |-> <<(<<0, 0>>)>>, visited |-> {<<0, 0>>}, count |-> 1],
                     hw, vw, N)
    IN s.count = N * N

----------------------------------------------------------------------------
(* _convert_to_3d_walls and _create_wall                                    *)

\* (grid_size * cell_size) / 2.0
HalfSize(N, cs) == (N * cs) \div 2

CreateWall(x, y, z, orientation, cs) ==
    [x |-> x, y |-> y, z |-> z + wall_height \div 2,
     length |-> IF orientation = "horizontal" THEN cs ELSE wall_thickness,
     width |-> IF orientation = "horizontal" THEN wall_thickness ELSE cs,
     height |-> wall_height,
     yaw |-> 0]

\* HorizontalWall centred on the left end of the wall: x without the half cell.
HorizontalWallLeftEnd(row, col, N, cs) ==
    CreateWall((0 - HalfSize(N, cs)) + col * cs,
               (0 - HalfSize(N, cs)) + row * cs, 0, "horizontal", cs)

\* x = -half_size + (col + 0.5) * cell_size ; y = -half_size + row * cell_size
HorizontalWall(row, col, N, cs) ==
    CreateWall((0 - HalfSize(N, cs)) + ((2 * col + 1) * cs) \div 2,
               (0 - HalfSize(N, cs)) + row * cs, 0, "horizontal", cs)

\* x = -half_size + col * cell_size ; y = -half_size + (row + 0.5) * cell_size
VerticalWall(row, col, N, cs) ==
    CreateWall((0 - HalfSize(N, cs)) + col * cs,
               (0 - HalfSize(N, cs)) + ((2 * row + 1) * cs) \div 2, 0, "vertical", cs)

\* The positions of an R x C matrix in row-major order, from index k on
\* (the nested for loops over range(R), range(C)).
RECURSIVE RowMajor(_, _, _)
RowMajor(k, R, C) ==
    IF k >= R * C THEN <<>>
    ELSE <<(<<k \div C, k % C>>)>> \o RowMajor(k + 1, R, C)

RECURSIVE ProjectHorizontal(_, _, _, _)
ProjectHorizontal(ps, hw, N, cs) ==
    IF ps = <<>> THEN <<>>
    ELSE (IF hw[Head(ps)]
          THEN <<HorizontalWall(Head(ps)[1], Head(ps)[2], N, cs)>>
          ELSE <<>>) \o ProjectHorizontal(Tail(ps), hw, N, cs)

RECURSIVE ProjectVertical(_, _, _, _)
ProjectVertical(ps, vw, N, cs) ==
    IF ps = <<>> THEN <<>>
    ELSE (IF vw[Head(ps)]
          THEN <<VerticalWall(Head(ps)[1], Head(ps)[2], N, cs)>>
          ELSE <<>>) \o ProjectVertical(Tail(ps), vw, N, cs)

\* ConvertTo3dWalls with the vertical loop stopping one column early.
ConvertTo3dWallsShortColumns(hw, vw, N, cs) ==
    ProjectHorizontal(RowMajor(0, N + 1, N), hw, N, cs)
    \o ProjectVertical(RowMajor(0, N, N), vw, N, cs)

ConvertTo3dWalls(hw, vw, N, cs) ==
    ProjectHorizontal(RowMajor(0, N + 1, N), hw, N, cs)
    \o ProjectVertical(RowMajor(0, N, N + 1), vw, N, cs)

----------------------------------------------------------------------------
(* main() and MazeGenerator.__init__                                        *)

Init ==
    /\ \E cfg \in Configs :
         /\ grid_size = cfg[1]
         /\ cell_size = cfg[2]
         /\ min_walls = cfg[3]
    /\ horizontal_walls = InitHorizontalWalls(grid_size)
    /\ vertical_walls = InitVerticalWalls(grid_size)
    /\ pc = "generate_maze"
    /\ visited = {}
    /\ stack = <<>>
    /\ current_inner_walls = 0
    /\ num_walls_to_add = 0
    /\ removable_paths = {}
    /\ candidate = None
    /\ added = 0
    /\ connected = None
    /\ warned = FALSE
    /\ walls = <<>>
    /\ summary = None
    /\ carved = None
    /\ file_written = FALSE
    /\ rng = Unseeded

----------------------------------------------------------------------------
(* _generate_connected_maze_dfs and _dfs_carve                              *)

\* directions = [(0, 1), (1, 0), (0, -1), (-1, 0)]
Directions == {<<0, 1>>, <<1, 0>>, <<0, 0 - 1>>, <<0 - 1, 0>>}

\* An active _dfs_carve(row, col) call.  random.shuffle fixes the order in
\* which the for loop takes the four directions; an iteration whose test
\* (lines 82-84) fails assigns nothing, and a direction that fails once fails
\* from then on (visited only grows, the bounds are fixed).  So the loop
\* carves, in some order, exactly the directions that pass the test when they
\* are taken, and returns when none passes: the frame needs no record of the
\* order beyond the choice made at each carving iteration.
Frame(row, col) == [row |-> row, col |-> col]

\* ClearHorizontal with the upward wall taken one row too high.
ClearHorizontalRowAbove(hw, row, col, dr) ==
    IF dr = 1 THEN [hw EXCEPT ![<<row + 1, col>>] = FALSE]
    ELSE IF dr = 0 - 1 THEN [hw EXCEPT ![<<row - 1, col>>] = FALSE]
    ELSE hw

\* The wall between (row, col) and its neighbour in direction (dr, dc),
\* lines 87-94.
ClearHorizontal(hw, row, col, dr) ==
    IF dr = 1 THEN [hw EXCEPT ![<<row + 1, col>>] = FALSE]
    ELSE IF dr = 0 - 1 THEN [hw EXCEPT ![<<row, col>>] = FALSE]
    ELSE hw

\* ClearVertical with the leftward wall taken one column too far left.
ClearVerticalColumnLeft(vw, row, col, dr, dc) ==
    IF dr = 1 \/ dr = 0 - 1 THEN vw
    ELSE IF dc = 1 THEN [vw EXCEPT ![<<row, col + 1>>] = FALSE]
    ELSE IF dc = 0 - 1 THEN [vw EXCEPT ![<<row, col - 1>>] = FALSE]
    ELSE vw

ClearVertical(vw, row, col, dr, dc) ==
    IF dr = 1 \/ dr = 0 - 1 THEN vw
    ELSE IF dc = 1 THEN [vw EXCEPT ![<<row, col + 1>>] = FALSE]
    ELSE IF dc = 0 - 1 THEN [vw EXCEPT ![<<row, col>>] = FALSE]
    ELSE vw

\* CanCarve with the row bound of line 82 inclusive.
CanCarveRowInclusive(next_row, next_col, N, vis) ==
    /\ 0 <= next_row /\ next_row <= N
    /\ 0 <= next_col /\ next_col < N
    /\ <<next_row, next_col>> \notin vis

\* The test of lines 82-84.
CanCarve(next_row, next_col, N, vis) ==
    /\ 0 <= next_row /\ next_row < N
    /\ 0 <= next_col /\ next_col < N
    /\ <<next_row, next_col>> \notin vis

\* GenerateConnectedMazeDfs drawing the start cell with an exclusive upper
\* end, as random.randrange(0, grid_size - 1) would.
GenerateConnectedMazeDfsExclusive ==
    /\ pc = "generate_maze"
    /\ IF grid_size - 1 <= 0
       THEN /\ pc' = "ValueError"
            /\ UNCHANGED <<visited, stack, rng>>
       ELSE \E start_row \in 0..(grid_size - 2), start_col \in 0..(grid_size - 2) :
              /\ Draw(<<start_row, start_col>>)
              /\ visited' = {<<start_row, start_col>>}
              /\ stack' = <<Frame(start_row, start_col)>>
              /\ pc' = "dfs_carve"
    /\ UNCHANGED <<cfgVars, wallVars, carved, densVars, outVars>>

\* generate_maze calls _generate_connected_maze_dfs: random.randint(0, N - 1)
\* raises ValueError on an empty range, which nothing catches.
GenerateConnectedMazeDfs ==
    /\ pc = "generate_maze"
    /\ IF grid_size - 1 < 0
       THEN /\ pc' = "ValueError"
            /\ UNCHANGED <<visited, stack, rng>>
       ELSE \E start_row \in 0..(grid_size - 1), start_col \in 0..(grid_size - 1) :
              /\ Draw(<<start_row, start_col>>)
              /\ visited' = {<<start_row, start_col>>}
              /\ stack' = <<Frame(start_row, start_col)>>
              /\ pc' = "dfs_carve"
    /\ UNCHANGED <<cfgVars, wallVars, carved, densVars, outVars>>

\* The recursive call of line 97 fits under the interpreter's recursion limit
\* when the stack holds depth _dfs_carve frames.  (The frames random.shuffle
\* needs inside the new call are not counted: the interpreter gives up no
\* later than this.)
CallFits(depth) == FramesBelowCarve + depth + 1 <= RecursionLimit

\* DfsCarveStep taking its direction from a source the seed does not set.
DfsCarveStepUnseeded ==
    /\ pc = "dfs_carve"
    /\ stack # <<>>
    /\ LET top == stack[Len(stack)] IN
       \E d \in Directions :
         LET next_row == top.row + d[1]
             next_col == top.col + d[2]
         IN /\ CanCarve(next_row, next_col, grid_size, visited)
            /\ horizontal_walls' = ClearHorizontal(horizontal_walls, top.row, top.col, d[1])
            /\ vertical_walls' = ClearVertical(vertical_walls, top.row, top.col, d[1], d[2])
            /\ IF CallFits(Len(stack))
               THEN /\ visited' = visited \cup {<<next_row, next_col>>}
                    /\ stack' = Append(stack, Frame(next_row, next_col))
                    /\ UNCHANGED pc
               ELSE /\ pc' = "RecursionError"
                    /\ UNCHANGED <<visited, stack>>
    /\ UNCHANGED <<cfgVars, rng, carved, densVars, outVars>>

\* The for loop of the innermost _dfs_carve frame reaches a direction that
\* passes the test: the wall is cleared and _dfs_carve recurses, marking the
\* neighbour visited on entry (line 72).  A call that does not fit raises
\* RecursionError, which nothing catches.
DfsCarveStep ==
    /\ pc = "dfs_carve"
    /\ stack # <<>>
    /\ LET top == stack[Len(stack)] IN
       \E d \in Directions :
         LET next_row == top.row + d[1]
             next_col == top.col + d[2]
         IN /\ CanCarve(next_row, next_col, grid_size, visited)
            /\ Draw(d)
            /\ horizontal_walls' = ClearHorizontal(horizontal_walls, top.row, top.col, d[1])
            /\ vertical_walls' = ClearVertical(vertical_walls, top.row, top.col, d[1], d[2])
            /\ IF CallFits(Len(stack))
               THEN /\ visited' = visited \cup {<<next_row, next_col>>}
                    /\ stack' = Append(stack, Frame(next_row, next_col))
                    /\ UNCHANGED pc
               ELSE /\ pc' = "RecursionError"
                    /\ UNCHANGED <<visited, stack>>
    /\ UNCHANGED <<cfgVars, carved, densVars, outVars>>

\* No direction left in the innermost frame passes the test: its for loop
\* runs out and _dfs_carve returns; the outermost return hands control back
\* to generate_maze.
DfsCarveReturn ==
    /\ pc = "dfs_carve"
    /\ stack # <<>>
    /\ LET top == stack[Len(stack)] IN
       \A d \in Directions : ~CanCarve(top.row + d[1], top.col + d[2], grid_size, visited)
    /\ stack' = SubSeq(stack, 1, Len(stack) - 1)
    /\ IF Len(stack) = 1
       THEN /\ pc' = "count_inner_walls"
            /\ carved' = <<horizontal_walls, vertical_walls>>
       ELSE UNCHANGED <<pc, carved>>
    /\ UNCHANGED <<cfgVars, rng, wallVars, visited, densVars, outVars>>

----------------------------------------------------------------------------
(* generate_maze, steps 2 and 3; _add_additional_walls                      *)

\* The test of line 51 with an inclusive comparison.
NeedsMoreWallsInclusive(current, wanted) == current <= wanted

\* The test of line 51.
NeedsMoreWalls(current, wanted) == current < wanted

\* Lines 47-52: count the interior walls and decide whether to densify.
CountWalls ==
    /\ pc = "count_inner_walls"
    /\ LET count == CountInnerWalls(horizontal_walls, vertical_walls, grid_size) IN
         /\ current_inner_walls' = count
         /\ IF NeedsMoreWalls(count, min_walls)
            THEN /\ pc' = "add_additional_walls"
                 /\ num_walls_to_add' = min_walls - count
            ELSE /\ pc' = "convert_to_3d_walls"
                 /\ UNCHANGED num_walls_to_add
    /\ UNCHANGED <<cfgVars, rng, wallVars, carveVars, removable_paths, candidate, added,
                   connected, warned, outVars>>

\* RemovablePaths without the tests of lines 125 and 131: every interior
\* position, open or not.
RemovablePathsAllInterior(hw, vw, N) ==
    {<<"h", p[1], p[2]>> : p \in InnerHorizontal(N)}
    \cup {<<"v", p[1], p[2]>> : p \in InnerVertical(N)}

\* Lines 120-132: every open interior position, as (path_type, row, col).
RemovablePaths(hw, vw, N) ==
    {<<"h", p[1], p[2]>> : p \in {q \in InnerHorizontal(N) : ~hw[q]}}
    \cup {<<"v", p[1], p[2]>> : p \in {q \in InnerVertical(N) : ~vw[q]}}

\* Lines 120-138.  random.shuffle(removable_paths) fixes an order nothing
\* reads before the for loop takes its next element: the loop takes any
\* candidate it has not taken yet.
AddAdditionalWalls ==
    /\ pc = "add_additional_walls"
    /\ removable_paths' = RemovablePaths(horizontal_walls, vertical_walls, grid_size)
    /\ added' = 0
    /\ pc' = "for_removable_paths"
    /\ UNCHANGED <<cfgVars, rng, wallVars, carveVars, current_inner_walls, num_walls_to_add,
                   candidate, connected, warned, outVars>>

\* Lines 144-147 and 155-158: write one candidate's entry.
SetPath(hw, vw, cand, value) ==
    IF cand[1] = "h"
    THEN <<[hw EXCEPT ![<<cand[2], cand[3]>>] = value], vw>>
    ELSE <<hw, [vw EXCEPT ![<<cand[2], cand[3]>>] = value]>>

\* The test of line 140 with a strict comparison.
EnoughAddedStrict(n, wanted) == n > wanted

\* The test of line 140.
EnoughAdded(n, wanted) == n >= wanted

\* Lines 139-147: the loop takes its next candidate and sets its wall.
TryCandidate ==
    /\ pc = "for_removable_paths"
    /\ ~EnoughAdded(added, num_walls_to_add)
    /\ \E cand \in removable_paths :
         /\ Draw(cand)
         /\ removable_paths' = removable_paths \ {cand}
         /\ candidate' = cand
         /\ horizontal_walls' = SetPath(horizontal_walls, vertical_walls, cand, TRUE)[1]
         /\ vertical_walls' = SetPath(horizontal_walls, vertical_walls, cand, TRUE)[2]
    /\ pc' = "is_all_connected"
    /\ UNCHANGED <<cfgVars, carveVars, current_inner_walls, num_walls_to_add, added,
                   connected, warned, outVars>>

\* CheckCandidate without the else branch: a rejected wall is left standing.
CheckCandidateNoRevert ==
    /\ pc = "is_all_connected"
    /\ connected' = IsAllConnected(horizontal_walls, vertical_walls, grid_size)
    /\ IF connected'
       THEN added' = added + 1
       ELSE UNCHANGED added
    /\ candidate' = None
    /\ pc' = "for_removable_paths"
    /\ UNCHANGED <<cfgVars, rng, wallVars, carveVars, current_inner_walls, num_walls_to_add,
                   removable_paths, warned, outVars>>

\* CheckCandidate whose else branch clears the entry of the other matrix.
CheckCandidateRevertOther ==
    /\ pc = "is_all_connected"
    /\ connected' = IsAllConnected(horizontal_walls, vertical_walls, grid_size)
    /\ IF connected'
       THEN /\ added' = added + 1
            /\ UNCHANGED wallVars
       ELSE LET other == <<IF candidate[1] = "h" THEN "v" ELSE "h", candidate[2], candidate[3]>>
            IN /\ horizontal_walls' = SetPath(horizontal_walls, vertical_walls, other, FALSE)[1]
               /\ vertical_walls' = SetPath(horizontal_walls, vertical_walls, other, FALSE)[2]
               /\ UNCHANGED added
    /\ candidate' = None
    /\ pc' = "for_removable_paths"
    /\ UNCHANGED <<cfgVars, rng, carveVars, current_inner_walls, num_walls_to_add,
                   removable_paths, warned, outVars>>

\* Lines 150-158: keep the wall when the grid is still connected, else clear it.
CheckCandidate ==
    /\ pc = "is_all_connected"
    /\ connected' = IsAllConnected(horizontal_walls, vertical_walls, grid_size)
    /\ IF connected'
       THEN /\ added' = added + 1
            /\ UNCHANGED wallVars
       ELSE /\ horizontal_walls' = SetPath(horizontal_walls, vertical_walls, candidate, FALSE)[1]
            /\ vertical_walls' = SetPath(horizontal_walls, vertical_walls, candidate, FALSE)[2]
            /\ UNCHANGED added
    /\ candidate' = None
    /\ pc' = "for_removable_paths"
    /\ UNCHANGED <<cfgVars, rng, carveVars, current_inner_walls, num_walls_to_add,
                   removable_paths, warned, outVars>>

\* The test of line 160 with the comparison turned round.
MoreThanRequested(n, wanted) == n > wanted

\* The test of line 160.
FewerThanRequested(n, wanted) == n < wanted

\* The loop ends (break of line 141, or no candidate left); lines 160-161
\* print the warning; _add_additional_walls returns.
FinishAdding ==
    /\ pc = "for_removable_paths"
    /\ EnoughAdded(added, num_walls_to_add) \/ removable_paths = {}
    /\ warned' = FewerThanRequested(added, num_walls_to_add)
    /\ pc' = "convert_to_3d_walls"
    /\ UNCHANGED <<cfgVars, rng, wallVars, carveVars, current_inner_walls, num_walls_to_add,
                   removable_paths, candidate, added, connected, outVars>>

----------------------------------------------------------------------------
(* generate_maze, step 4; save_to_sdf                                       *)

\* Lines 55-57: project the matrices and return the list to main().
ConvertWalls ==
    /\ pc = "convert_to_3d_walls"
    /\ walls' = ConvertTo3dWalls(horizontal_walls, vertical_walls, grid_size, cell_size)
    /\ pc' = "save_to_sdf"
    /\ UNCHANGED <<cfgVars, rng, wallVars, carveVars, densVars, summary, file_written>>

\* save_to_sdf: write the file, print the counts (lines 257-263).
SaveToSdf ==
    /\ pc = "save_to_sdf"
    /\ file_written' = TRUE
    /\ summary' = [total |-> Len(walls),
                   outer_walls |-> 2 * grid_size + 2 * grid_size,
                   inner_walls |-> Len(walls) - (2 * grid_size + 2 * grid_size)]
    /\ pc' = "done"
    /\ UNCHANGED <<cfgVars, rng, wallVars, carveVars, densVars, walls>>

Next ==
    \/ GenerateConnectedMazeDfs
    \/ DfsCarveStep
    \/ DfsCarveReturn
    \/ CountWalls
    \/ AddAdditionalWalls
    \/ TryCandidate
    \/ CheckCandidate
    \/ FinishAdding
    \/ ConvertWalls
    \/ SaveToSdf

Spec == Init /\ [][Next]_vars

----------------------------------------------------------------------------
(* Carving a grid of more cells than the recursion limit                    *)

\* The smallest grid that has more cells than frames fit, and the length of
\* the carving path the runs below start from.
DeepGridSize == 32
DeepPrefix == RecursionLimit - FramesBelowCarve - 12

\* The k-th cell of the path that starts at (0, 0) and runs along the rows,
\* left to right in the even rows and right to left in the odd ones.
SnakeCell(N, k) ==
    <<k \div N, IF (k \div N) % 2 = 0 THEN k % N ELSE N - 1 - (k % N)>>

\* The entries cleared by carving the first P cells of that path.
SnakeDown(N, P) == {SnakeCell(N, k) : k \in {j \in 1..(P - 1) : j % N = 0}}
SnakeAcross(N, P) ==
    {<<SnakeCell(N, k)[1],
       Max(SnakeCell(N, k)[2], SnakeCell(N, k - 1)[2])>> : k \in {j \in 1..(P - 1) : j % N # 0}}

\* The state of a run on an N x N grid whose random draws were start cell
\* (0, 0) and then, in each call, first the direction of the next cell of the
\* path: P cells are visited and their P calls of _dfs_carve are active.
SnakeState(N, P) ==
    [horizontal_walls |-> [p \in (0..N) \X (0..(N - 1)) |-> p \notin SnakeDown(N, P)],
     vertical_walls |-> [p \in (0..(N - 1)) \X (0..N) |-> p \notin SnakeAcross(N, P)],
     visited |-> {SnakeCell(N, k) : k \in 0..(P - 1)},
     stack |-> [k \in 1..P |-> Frame(SnakeCell(N, k - 1)[1], SnakeCell(N, k - 1)[2])]]

\* main() run with --size 32, DeepPrefix cells into such a run.
InitDeep ==
    /\ grid_size = DeepGridSize
    /\ cell_size = 80
    /\ min_walls = 0
    /\ horizontal_walls = SnakeState(DeepGridSize, DeepPrefix).horizontal_walls
    /\ vertical_walls = SnakeState(DeepGridSize, DeepPrefix).vertical_walls
    /\ visited = SnakeState(DeepGridSize, DeepPrefix).visited
    /\ stack = SnakeState(DeepGridSize, DeepPrefix).stack
    /\ pc = "dfs_carve"
    /\ current_inner_walls = 0
    /\ num_walls_to_add = 0
    /\ removable_paths = {}
    /\ candidate = None
    /\ added = 0
    /\ connected = None
    /\ warned = FALSE
    /\ walls = <<>>
    /\ summary = None
    /\ carved = None
    /\ file_written = FALSE
    /\ rng = Unseeded

\* Carving is all such a run does before the recursion limit ends it.
NextDeep == DfsCarveStep \/ DfsCarveReturn

SpecDeep == InitDeep /\ [][NextDeep]_vars

----------------------------------------------------------------------------
(* _is_all_connected as a function of the wall state                        *)

\* Grid sizes whose wall states are all enumerated.
CheckedGridSizes == 1..3

\* The matrices of an N x N grid whose interior entries are ih and iv; the
\* boundary entries are True, as in every state of the generator.
WithInterior(N, ih, iv) ==
    <<[p \in (0..N) \X (0..(N - 1)) |-> IF p \in InnerHorizontal(N) THEN ih[p] ELSE TRUE],
      [p \in (0..(N - 1)) \X (0..N) |-> IF p \in InnerVertical(N) THEN iv[p] ELSE TRUE]>>

\* A generator of any checked size in any wall state, about to call
\* _is_all_connected.
InitChecker ==
    /\ grid_size \in CheckedGridSizes
    /\ cell_size = 80
    /\ min_walls = 0
    /\ \E ih \in [InnerHorizontal(grid_size) -> BOOLEAN],
          iv \in [InnerVertical(grid_size) -> BOOLEAN] :
         /\ horizontal_walls = WithInterior(grid_size, ih, iv)[1]
         /\ vertical_walls = WithInterior(grid_size, ih, iv)[2]
    /\ pc = "call_is_all_connected"
    /\ visited = {}
    /\ stack = <<>>
    /\ current_inner_walls = 0
    /\ num_walls_to_add = 0
    /\ removable_paths = {}
    /\ candidate = None
    /\ added = 0
    /\ connected = None
    /\ warned = FALSE
    /\ walls = <<>>
    /\ summary = None
    /\ carved = None
    /\ file_written = FALSE
    /\ rng = Unseeded

\* CallIsAllConnected keeping its visited marks in self.horizontal_walls
\* instead of the local matrix of line 165.
CallIsAllConnectedMarking ==
    /\ pc = "call_is_all_connected"
    /\ connected' = IsAllConnected(horizontal_walls, vertical_walls, grid_size)
    /\ horizontal_walls' = [p \in DOMAIN horizontal_walls |-> TRUE]
    /\ pc' = "is_all_connected_returned"
    /\ UNCHANGED <<cfgVars, rng, vertical_walls, carveVars, current_inner_walls, num_walls_to_add,
                   removable_paths, candidate, added, warned, outVars>>

\* One call of _is_all_connected.
CallIsAllConnected ==
    /\ pc = "call_is_all_connected"
    /\ connected' = IsAllConnected(horizontal_walls, vertical_walls, grid_size)
    /\ pc' = "is_all_connected_returned"
    /\ UNCHANGED <<cfgVars, rng, wallVars, carveVars, current_inner_walls, num_walls_to_add,
                   removable_paths, candidate, added, warned, outVars>>

\* A second call, made right after the first has returned: the method reads
\* self.grid_size and the two matrices and writes only its locals (visited,
\* queue, count).
CallIsAllConnectedAgain ==
    /\ pc = "is_all_connected_returned"
    /\ connected' = IsAllConnected(horizontal_walls, vertical_walls, grid_size)
    /\ pc' = "is_all_connected_returned_again"
    /\ UNCHANGED <<cfgVars, rng, wallVars, carveVars, current_inner_walls, num_walls_to_add,
                   removable_paths, candidate, added, warned, outVars>>

NextChecker == CallIsAllConnected \/ CallIsAllConnectedAgain

SpecChecker == InitChecker /\ [][NextChecker]_vars

----------------------------------------------------------------------------
(* _convert_to_3d_walls as a function of the wall state                     *)

\* Largest grid whose matrices are handed to the projector directly.
MaxProjectedGridSize == 5

\* Matrices with the boundary True and the interior either all False but for
\* at most one entry, or all True but for at most one entry.
SparseInteriors(N) ==
    LET inner == {<<"h", p>> : p \in InnerHorizontal(N)} \cup {<<"v", p>> : p \in InnerVertical(N)}
        few == {{}} \cup {{e} : e \in inner}
        sets == few \cup {inner \ f : f \in few}
    IN {WithInterior(N, [p \in InnerHorizontal(N) |-> <<"h", p>> \in S],
                        [p \in InnerVertical(N) |-> <<"v", p>> \in S]) : S \in sets}

\* generate_maze about to call _convert_to_3d_walls (line 55) on such
\* matrices.
InitProjector ==
    /\ grid_size \in 1..MaxProjectedGridSize
    /\ cell_size \in CellSizes
    /\ min_walls = 0
    /\ \E m \in SparseInteriors(grid_size) :
         /\ horizontal_walls = m[1]
         /\ vertical_walls = m[2]
    /\ pc = "convert_to_3d_walls"
    /\ visited = {}
    /\ stack = <<>>
    /\ current_inner_walls = 0
    /\ num_walls_to_add = 0
    /\ removable_paths = {}
    /\ candidate = None
    /\ added = 0
    /\ connected = None
    /\ warned = FALSE
    /\ walls = <<>>
    /\ summary = None
    /\ carved = None
    /\ file_written = FALSE
    /\ rng = Unseeded

NextProjector == ConvertWalls

SpecProjector == InitProjector /\ [][NextProjector]_vars

----------------------------------------------------------------------------
(* Two runs of main() with the same arguments and the same --seed           *)

\* Grid sizes of the seeded runs.
ReplayGridSizes == 1..3

\* The seeded runs: valid arguments with the default cell size; the 3 x 3
\* grid with min_walls = 0 only.
ReplayConfigs ==
    {cfg \in Configs : /\ cfg[1] \in ReplayGridSizes
                       /\ cfg[2] = 80
                       /\ cfg[3] >= 0
                       /\ cfg[1] = 3 => cfg[3] = 0}

\* main() started with --seed.
InitReplay ==
    /\ \E cfg \in ReplayConfigs :
         /\ grid_size = cfg[1]
         /\ cell_size = cfg[2]
         /\ min_walls = cfg[3]
    /\ horizontal_walls = InitHorizontalWalls(grid_size)
    /\ vertical_walls = InitVerticalWalls(grid_size)
    /\ pc = "generate_maze"
    /\ visited = {}
    /\ stack = <<>>
    /\ current_inner_walls = 0
    /\ num_walls_to_add = 0
    /\ removable_paths = {}
    /\ candidate = None
    /\ added = 0
    /\ connected = None
    /\ warned = FALSE
    /\ walls = <<>>
    /\ summary = None
    /\ carved = None
    /\ file_written = FALSE
    /\ rng = Seeded

\* The first run is over; main() is started again with the same arguments
\* and the same seed: a new MazeGenerator is constructed, random.seed puts the
\* generator back at the start of the same sequence of outcomes, and what the
\* first run ended with is kept for comparison.
RunAgain ==
    /\ pc = "done"
    /\ rng.mode = "record"
    /\ rng' = [mode |-> "replay", made |-> <<>>, tape |-> rng.made,
               first |-> [horizontal_walls |-> horizontal_walls,
                          vertical_walls |-> vertical_walls,
                          walls |-> walls]]
    /\ horizontal_walls' = InitHorizontalWalls(grid_size)
    /\ vertical_walls' = InitVerticalWalls(grid_size)
    /\ pc' = "generate_maze"
    /\ visited' = {}
    /\ stack' = <<>>
    /\ current_inner_walls' = 0
    /\ num_walls_to_add' = 0
    /\ removable_paths' = {}
    /\ candidate' = None
    /\ added' = 0
    /\ connected' = None
    /\ warned' = FALSE
    /\ walls' = <<>>
    /\ summary' = None
    /\ carved' = None
    /\ file_written' = FALSE
    /\ UNCHANGED cfgVars

NextReplay == Next \/ RunAgain

SpecReplay == InitReplay /\ [][NextReplay]_vars

----------------------------------------------------------------------------
(* _add_additional_walls on wall states that have cycles                    *)

\* Largest num_walls_to_add of these calls.
MaxWallsToAdd == 2

\* Grid sizes of these calls.
DensifiedGridSizes == 1..3

\* generate_maze at line 52, about to call _add_additional_walls(K) with
\* K > 0, on matrices in which every cell can reach every other and at most
\* one interior wall stands: _count_inner_walls has returned the number of
\* interior walls, and min_walls is K more than that.
InitDensifier ==
    /\ grid_size \in DensifiedGridSizes
    /\ cell_size = 80
    /\ \E m \in SparseInteriors(grid_size) :
         /\ horizontal_walls = m[1]
         /\ vertical_walls = m[2]
    /\ IsAllConnected(horizontal_walls, vertical_walls, grid_size)
    /\ current_inner_walls = CountInnerWalls(horizontal_walls, vertical_walls, grid_size)
    /\ num_walls_to_add \in 1..MaxWallsToAdd
    /\ min_walls = current_inner_walls + num_walls_to_add
    /\ carved = <<horizontal_walls, vertical_walls>>
    /\ pc = "add_additional_walls"
    /\ visited = (0..(grid_size - 1)) \X (0..(grid_size - 1))
    /\ stack = <<>>
    /\ removable_paths = {}
    /\ candidate = None
    /\ added = 0
    /\ connected = None
    /\ warned = FALSE
    /\ walls = <<>>
    /\ summary = None
    /\ file_written = FALSE
    /\ rng = Unseeded

\* The call, up to its return to generate_maze.
NextDensifier ==
    \/ AddAdditionalWalls
    \/ TryCandidate
    \/ CheckCandidate
    \/ FinishAdding

SpecDensifier == InitDensifier /\ [][NextDensifier]_vars

----------------------------------------------------------------------------
(* Vocabulary of the properties                                             *)

\* main() was given a grid_size, cell_size and min_walls the interface allows.
ValidConfig == grid_size >= 1 /\ cell_size > 0 /\ min_walls >= 0

Cells(N) == (0..(N - 1)) \X (0..(N - 1))

\* Interior entries that are False.
OpenInner(hw, vw, N) ==
    Cardinality({p \in InnerHorizontal(N) : ~hw[p]})
  + Cardinality({p \in InnerVertical(N) : ~vw[p]})

\* The boundary rings of the two matrices.
BoundaryHorizontal(N) == {0, N} \X (0..(N - 1))
BoundaryVertical(N) == (0..(N - 1)) \X {0, N}

\* Two cells are joined by a passage: grid-adjacent, separating entry False.
Passage(a, b, hw, vw) ==
    \/ a[2] = b[2] /\ b[1] = a[1] + 1 /\ ~hw[<<b[1], b[2]>>]
    \/ a[2] = b[2] /\ a[1] = b[1] + 1 /\ ~hw[<<a[1], a[2]>>]
    \/ a[1] = b[1] /\ b[2] = a[2] + 1 /\ ~vw[<<b[1], b[2]>>]
    \/ a[1] = b[1] /\ a[2] = b[2] + 1 /\ ~vw[<<a[1], a[2]>>]

\* The cells joined to cell a by a passage.
OpenNeighbours(a, hw, vw, N) ==
    {b \in {<<a[1] - 1, a[2]>>, <<a[1] + 1, a[2]>>, <<a[1], a[2] - 1>>, <<a[1], a[2] + 1>>}
            \cap Cells(N) : Passage(a, b, hw, vw)}

\* The cells reachable through passages from the set S, whose members not yet
\* expanded are those of frontier.
RECURSIVE ReachableFrom(_, _, _, _, _)
ReachableFrom(S, frontier, hw, vw, N) ==
    LET more == UNION {OpenNeighbours(a, hw, vw, N) : a \in frontier} \ S
    IN IF more = {} THEN S ELSE ReachableFrom(S \cup more, more, hw, vw, N)

\* Every cell is reachable from every other cell.
PairwiseConnected(hw, vw, N) ==
    \A a \in Cells(N) : ReachableFrom({a}, {a}, hw, vw, N) = Cells(N)

\* Every cell is reachable from the last cell.  Passage is symmetric, so this
\* is PairwiseConnected at the cost of one search.
GraphConnected(hw, vw, N) ==
    LET last == <<N - 1, N - 1>>
    IN ReachableFrom({last}, {last}, hw, vw, N) = Cells(N)

\* generate_maze has got past _generate_connected_maze_dfs.
CarvingReturned ==
    pc \in {"count_inner_walls", "add_additional_walls", "for_removable_paths",
            "is_all_connected", "convert_to_3d_walls", "save_to_sdf", "done"}

----------------------------------------------------------------------------
(* Properties                                                               *)

\* C1: when _generate_connected_maze_dfs returns, exactly N*N - 1 interior
\* wall entries are False and _is_all_connected() returns True, whatever the
\* start cell and the order of the directions.
C1_CarverSpanningTree ==
    pc = "count_inner_walls" =>
        /\ OpenInner(horizontal_walls, vertical_walls, grid_size) = grid_size * grid_size - 1
        /\ IsAllConnected(horizontal_walls, vertical_walls, grid_size)

\* Carving of a 3 x 3 grid has just returned, from a start cell inside the grid
\* whose four directions were all in bounds.
C1_Witness ==
    /\ pc = "count_inner_walls"
    /\ grid_size = 3
    /\ ~horizontal_walls[<<1, 1>>] /\ ~vertical_walls[<<1, 1>>]
    /\ horizontal_walls[<<2, 1>>] /\ vertical_walls[<<1, 2>>]

\* C2 (I1): in every state from construction to the end of the run every
\* boundary entry of both matrices is True.
C2_BoundaryImmutable ==
    /\ \A p \in BoundaryHorizontal(grid_size) : horizontal_walls[p]
    /\ \A p \in BoundaryVertical(grid_size) : vertical_walls[p]

\* A run on a 3 x 3 grid that carved, densified (rejecting candidates) and
\* projected.
C2_Witness ==
    /\ pc = "done"
    /\ grid_size = 3
    /\ warned
    /\ removable_paths = {}

\* C3 (I2): after carving has returned, whenever no densifier candidate is
\* tentatively set, every cell is reachable from every other cell through
\* open interior entries.
C3_ConnectedBetweenSteps ==
    (CarvingReturned /\ pc # "is_all_connected") =>
        GraphConnected(horizontal_walls, vertical_walls, grid_size)

\* The densifier is back at the head of its loop on a 3 x 3 grid after a
\* candidate was tried and its wall cleared again.
C3_Witness ==
    /\ pc = "for_removable_paths"
    /\ grid_size = 3
    /\ Cardinality(removable_paths) < grid_size * grid_size - 1
    /\ added = 0

\* generate_maze has returned its list to main().
GenerateMazeReturned == pc \in {"save_to_sdf", "done"}

\* The wall matrices are final: the densifier has returned or was not called.
WallsFinal == pc \in {"convert_to_3d_walls", "save_to_sdf", "done"}

\* The interior walls standing when carving returned.
CarvedInnerWalls == CountInnerWalls(carved[1], carved[2], grid_size)

\* The interior walls standing now.
InnerWallsNow == CountInnerWalls(horizontal_walls, vertical_walls, grid_size)

\* While a candidate is tentatively set the grid can be disconnected: the
\* restriction of C3 to the states between candidates is needed.
C3_PendingCanDisconnect ==
    pc = "is_all_connected" => GraphConnected(horizontal_walls, vertical_walls, grid_size)

\* C4 as stated: with min_walls = 0 generate_maze returns 4*N + (N*N - 1)
\* descriptors.
C4_AsStated ==
    (GenerateMazeReturned /\ grid_size >= 1 /\ min_walls = 0) =>
        Len(walls) = 4 * grid_size + (grid_size * grid_size - 1)

\* C4, amended: with min_walls = 0 generate_maze returns 4*N + (N-1)*(N-1)
\* descriptors: the 4*N boundary walls and the interior walls the carver left
\* standing, which are the 2*N*(N-1) interior positions less the N*N - 1 it
\* cleared.
C4_DescriptorCount ==
    (GenerateMazeReturned /\ grid_size >= 1 /\ min_walls = 0) =>
        Len(walls) = 4 * grid_size + (grid_size - 1) * (grid_size - 1)

\* generate_maze has returned for a 3 x 3 grid with min_walls = 0.
C4_Witness ==
    /\ pc = "save_to_sdf"
    /\ grid_size = 3
    /\ min_walls = 0
    /\ Len(walls) = 16

\* C5 as stated: when generate_maze finishes without the warning, the final
\* interior wall count is at most min_walls.
C5_AsStated ==
    (GenerateMazeReturned /\ grid_size >= 1 /\ min_walls >= 0 /\ ~warned) =>
        InnerWallsNow <= min_walls

\* C5, amended: when generate_maze finishes, the final interior wall count is
\* at most the larger of min_walls and the count after carving, and when no
\* warning was printed it is at least min_walls.
C5_WallCountBounds ==
    (GenerateMazeReturned /\ grid_size >= 1 /\ min_walls >= 0) =>
        /\ InnerWallsNow <= Max(min_walls, CarvedInnerWalls)
        /\ ~warned => InnerWallsNow >= min_walls

\* generate_maze has returned without a warning although carving left more
\* interior walls than min_walls asks for.
C5_Witness ==
    /\ GenerateMazeReturned
    /\ grid_size = 3
    /\ min_walls = 2
    /\ ~warned
    /\ InnerWallsNow = 4

\* C6: from the return of carving on, and so when _add_additional_walls has
\* returned, the interior wall count is at least the count after carving and
\* every interior entry that was True when carving returned is still True.
C6_DensifierMonotone ==
    (CarvingReturned /\ grid_size >= 1) =>
        /\ InnerWallsNow >= CarvedInnerWalls
        /\ \A p \in InnerHorizontal(grid_size) : carved[1][p] => horizontal_walls[p]
        /\ \A p \in InnerVertical(grid_size) : carved[2][p] => vertical_walls[p]

\* _add_additional_walls has returned on a 3 x 3 grid after trying every
\* candidate.
C6_Witness ==
    /\ pc = "convert_to_3d_walls"
    /\ grid_size = 3
    /\ current_inner_walls < min_walls
    /\ removable_paths = {}
    /\ CarvedInnerWalls = 4

\* C7: when _add_additional_walls was called (K = num_walls_to_add > 0) and
\* has returned, the warning was printed exactly when fewer than K walls were
\* kept; a run that printed it still goes on to return the projection of the
\* final matrices, and these are connected.
C7_WarningIffPartial ==
    (WallsFinal /\ current_inner_walls < min_walls) =>
        /\ num_walls_to_add = min_walls - CarvedInnerWalls
        /\ num_walls_to_add > 0
        /\ warned <=> (InnerWallsNow - CarvedInnerWalls < num_walls_to_add)
        /\ added = InnerWallsNow - CarvedInnerWalls
        /\ warned => GraphConnected(horizontal_walls, vertical_walls, grid_size)
        /\ (warned /\ GenerateMazeReturned) =>
               walls = ConvertTo3dWalls(horizontal_walls, vertical_walls, grid_size, cell_size)

\* A run that printed the warning has returned its list and written the file.
C7_Witness ==
    /\ pc = "done"
    /\ warned
    /\ grid_size = 2
    /\ num_walls_to_add = 2
    /\ added = 0
    /\ Len(walls) = 9

\* C8 as stated: a run given grid_size <= 0, cell_size <= 0 or min_walls < 0
\* never gets to carve, densify, project or write: it stays where main()
\* enters generate_maze, or ends there with the error.
C8_InvalidConfigRejected ==
    ~ValidConfig =>
        /\ pc \in {"generate_maze", "ValueError"}
        /\ stack = <<>> /\ visited = {}
        /\ horizontal_walls = InitHorizontalWalls(grid_size)
        /\ vertical_walls = InitVerticalWalls(grid_size)
        /\ walls = <<>>
        /\ ~file_written

\* An upper bound on the steps a run still has to take: each carving step
\* visits a new cell and each return pops a frame, each candidate costs a
\* try and a check, and the rest of main() is straight-line code.
StepsLeft ==
    LET N == grid_size
        afterCarving == 4 * N * (N - 1) + 5
    IN CASE pc = "generate_maze" -> 2 * N * N + afterCarving + 1
         [] pc = "dfs_carve" -> 2 * (N * N - Cardinality(visited)) + Len(stack) + afterCarving
         [] pc = "count_inner_walls" -> afterCarving
         [] pc = "add_additional_walls" -> afterCarving - 1
         [] pc = "for_removable_paths" -> 2 * Cardinality(removable_paths) + 3
         [] pc = "is_all_connected" -> 2 * Cardinality(removable_paths) + 4
         [] pc = "convert_to_3d_walls" -> 2
         [] pc = "save_to_sdf" -> 1
         [] OTHER -> 0

\* The run can take its next step.  CheckCandidate has no guard but its
\* position, so it is enabled wherever a candidate is being checked.
CanStep ==
    \/ ENABLED (GenerateConnectedMazeDfs \/ DfsCarveStep \/ DfsCarveReturn \/ CountWalls
                \/ AddAdditionalWalls \/ TryCandidate \/ FinishAdding \/ ConvertWalls
                \/ SaveToSdf)
    \/ pc = "is_all_connected" /\ candidate # None

\* C9 on the grids of Spec, where the recursion limit is out of reach: no
\* run with N >= 1 and min_walls >= 0 reaches an error state, a run that has
\* not yet returned from generate_maze can always take its next step, and
\* every step lowers the natural number StepsLeft, so carving, the densifier
\* loop and the whole of generate_maze end after finitely many steps with the
\* list returned.  (Every call of _is_all_connected ends because its value is
\* computed inside the step of CheckCandidate.)
C9_GenerationTerminates ==
    /\ []((grid_size >= 1 /\ min_walls >= 0) => pc \notin {"ValueError", "RecursionError"})
    /\ []((grid_size >= 1 /\ min_walls >= 0 /\ ~GenerateMazeReturned) => CanStep)
    /\ [](StepsLeft >= 0)
    /\ [][StepsLeft' < StepsLeft]_vars

\* C9 as stated, its safety half: for every N >= 1 and min_walls >= 0 no
\* run reaches a failure state, that is, none ends in an uncaught exception.
C9_NoFailureState ==
    (grid_size >= 1 /\ min_walls >= 0) => pc \notin {"ValueError", "RecursionError"}

\* The carving path of SnakeState is one the generator can take: a run on a
\* 3 x 3 grid reaches the state with all 9 cells on the path.
SnakeStateReached ==
    /\ grid_size = 3
    /\ pc = "dfs_carve"
    /\ horizontal_walls = SnakeState(3, 9).horizontal_walls
    /\ vertical_walls = SnakeState(3, 9).vertical_walls
    /\ visited = SnakeState(3, 9).visited
    /\ stack = SnakeState(3, 9).stack

\* generate_maze has returned on a 3 x 3 grid after the carver, the densifier
\* loop and its connectivity checks have all run to their end.
C9_Witness ==
    /\ GenerateMazeReturned
    /\ grid_size = 3
    /\ min_walls = 5
    /\ connected = FALSE
    /\ removable_paths = {}
    /\ stack = <<>>

\* C10: for every wall state, _is_all_connected returns True exactly when
\* every cell is reachable from (0, 0) through passages, and exactly when
\* every cell is reachable from every other cell.
C10_CheckerDecidesConnectivity ==
    pc = "is_all_connected_returned" =>
        /\ connected <=> (ReachableFrom({<<0, 0>>}, {<<0, 0>>}, horizontal_walls,
                                         vertical_walls, grid_size) = Cells(grid_size))
        /\ connected <=> PairwiseConnected(horizontal_walls, vertical_walls, grid_size)

\* _is_all_connected has returned True on a 3 x 3 grid that has a cycle of
\* passages and some interior walls standing.
C10_Witness ==
    /\ pc = "is_all_connected_returned"
    /\ grid_size = 3
    /\ connected = TRUE
    /\ OpenInner(horizontal_walls, vertical_walls, grid_size) = 9
    /\ horizontal_walls[<<1, 1>>]

\* _is_all_connected has returned False on a 3 x 3 grid in which a single
\* cell, not (0, 0), is walled off.
C10_WitnessDisconnected ==
    /\ pc = "is_all_connected_returned"
    /\ grid_size = 3
    /\ connected = FALSE
    /\ OpenInner(horizontal_walls, vertical_walls, grid_size) = 10
    /\ horizontal_walls[<<2, 2>>] /\ vertical_walls[<<2, 2>>]

TrueEntries(m) == {p \in DOMAIN m : m[p]}

\* C12: the list generate_maze returns has one descriptor per True entry of
\* the two matrices, exactly 4 * grid_size of these entries are boundary
\* entries, and the counts save_to_sdf prints are that total, 4 * grid_size,
\* and a difference equal to _count_inner_walls() on the final matrices.
C12_SummaryConsistent ==
    /\ GenerateMazeReturned =>
          /\ Len(walls) = Cardinality(TrueEntries(horizontal_walls))
                           + Cardinality(TrueEntries(vertical_walls))
          /\ Cardinality(TrueEntries(horizontal_walls) \cap BoundaryHorizontal(grid_size))
             + Cardinality(TrueEntries(vertical_walls) \cap BoundaryVertical(grid_size))
             = 4 * grid_size
    /\ pc = "done" =>
          /\ summary.total = Len(walls)
          /\ summary.outer_walls = 4 * grid_size
          /\ summary.inner_walls = summary.total - 4 * grid_size
          /\ summary.inner_walls =
                 CountInnerWalls(horizontal_walls, vertical_walls, grid_size)

\* save_to_sdf has printed 16 walls, 12 of them boundary walls, for a 3 x 3
\* grid on which the densifier was run.
C12_Witness ==
    /\ pc = "done"
    /\ grid_size = 3
    /\ warned
    /\ summary = [total |-> 16, outer_walls |-> 12, inner_walls |-> 4]

\* The descriptor the projector is to emit for the horizontal entry (row, col):
\* centre (-half + (col + 0.5) * cell_size, -half + row * cell_size), footprint
\* (cell_size, thickness), with half = grid_size * cell_size / 2.  The halves
\* are whole numbers because every cell size is an even number of units.
ExpectedHorizontal(row, col) ==
    [x |-> (2 * col + 1) * (cell_size \div 2) - grid_size * (cell_size \div 2),
     y |-> row * cell_size - grid_size * (cell_size \div 2),
     z |-> wall_height \div 2,
     length |-> cell_size, width |-> wall_thickness, height |-> wall_height,
     yaw |-> 0]

\* The same for the vertical entry (row, col): centre (-half + col * cell_size,
\* -half + (row + 0.5) * cell_size), footprint (thickness, cell_size).
ExpectedVertical(row, col) ==
    [x |-> col * cell_size - grid_size * (cell_size \div 2),
     y |-> (2 * row + 1) * (cell_size \div 2) - grid_size * (cell_size \div 2),
     z |-> wall_height \div 2,
     length |-> wall_thickness, width |-> cell_size, height |-> wall_height,
     yaw |-> 0]

\* The True entries of a matrix in the order the nested loops meet them.
TrueInOrder(m, R, C) == SelectSeq(RowMajor(0, R, C), LAMBDA p : m[p])

\* C13: the list the projector returns holds, for the True horizontal entries
\* in row-major order and then the True vertical entries in row-major order,
\* the descriptor with the centre and footprint given above and yaw 0; in a
\* 5 x 5 grid with cell_size 1.0 (80 units) the horizontal wall at row 2,
\* col 1 has centre x = -1.0 (-80), y = -0.5 (-40) and footprint
\* (1.0, thickness).
C13_ProjectorGeometry ==
    pc = "save_to_sdf" =>
        LET hs == TrueInOrder(horizontal_walls, grid_size + 1, grid_size)
            vs == TrueInOrder(vertical_walls, grid_size, grid_size + 1)
        IN /\ Len(walls) = Len(hs) + Len(vs)
           /\ \A i \in 1..Len(hs) : walls[i] = ExpectedHorizontal(hs[i][1], hs[i][2])
           /\ \A i \in 1..Len(vs) :
                 walls[Len(hs) + i] = ExpectedVertical(vs[i][1], vs[i][2])
           /\ \A i \in 1..Len(walls) : walls[i].yaw = 0
           /\ (grid_size = 5 /\ cell_size = 80 /\ horizontal_walls[<<2, 1>>]) =>
                 \E i \in 1..Len(walls) :
                    /\ walls[i].x = 0 - 80 /\ walls[i].y = 0 - 40
                    /\ walls[i].length = 80 /\ walls[i].width = wall_thickness

\* The projector has returned for a 5 x 5 grid with cell_size 1.0 whose only
\* interior wall is the horizontal one at row 2, col 1: 21 descriptors.
C13_Witness ==
    /\ pc = "save_to_sdf"
    /\ grid_size = 5
    /\ cell_size = 80
    /\ horizontal_walls[<<2, 1>>]
    /\ CountInnerWalls(horizontal_walls, vertical_walls, grid_size) = 1
    /\ Len(walls) = 21
    /\ walls[6].x = 0 - 80 /\ walls[6].y = 0 - 40

\* C14: in a run with grid_size = 1 and min_walls >= 0 neither matrix has an
\* interior position, no entry is ever cleared, _is_all_connected returns
\* True on the matrices, no error ends the run, and generate_maze returns
\* exactly the 4 boundary descriptors.
C14_SingleCellGrid ==
    (grid_size = 1 /\ min_walls >= 0) =>
        /\ DOMAIN horizontal_walls \ BoundaryHorizontal(1) = {}
        /\ DOMAIN vertical_walls \ BoundaryVertical(1) = {}
        /\ horizontal_walls = InitHorizontalWalls(1)
        /\ vertical_walls = InitVerticalWalls(1)
        /\ IsAllConnected(horizontal_walls, vertical_walls, 1)
        /\ connected = None
        /\ pc \notin {"ValueError", "RecursionError"}
        /\ GenerateMazeReturned =>
              /\ Len(walls) = 4
              /\ {walls[i] : i \in 1..4} =
                    {ExpectedHorizontal(0, 0), ExpectedHorizontal(1, 0),
                     ExpectedVertical(0, 0), ExpectedVertical(0, 1)}

\* A run with grid_size = 1 and min_walls = 3 has called the densifier,
\* which found no candidate, and has written its 4 walls.
C14_Witness ==
    /\ pc = "done"
    /\ grid_size = 1
    /\ min_walls = 3
    /\ num_walls_to_add = 3
    /\ warned
    /\ Len(walls) = 4

InDensifierLoop == pc \in {"for_removable_paths", "is_all_connected"}

\* _add_additional_walls was called and has returned.
DensifierReturned == WallsFinal /\ current_inner_walls < min_walls

\* C16: with K = num_walls_to_add, added <= K at every point of
\* _add_additional_walls and after it; once added = K the only step left is
\* the return, which sets no candidate and makes no connectivity check; the
\* loop takes each time a candidate it enumerated and has not taken before;
\* and on return added = K or no enumerated candidate is left untaken.
C16_DensifierStopsAtK ==
    /\ []((InDensifierLoop \/ DensifierReturned) => added <= num_walls_to_add)
    /\ []((InDensifierLoop \/ DensifierReturned) =>
             removable_paths \subseteq RemovablePaths(carved[1], carved[2], grid_size))
    /\ [][(InDensifierLoop /\ added = num_walls_to_add) =>
             /\ pc' = "convert_to_3d_walls"
             /\ UNCHANGED <<horizontal_walls, vertical_walls, candidate, connected,
                            removable_paths, added>>]_vars
    /\ [][pc' = "is_all_connected" =>
             /\ candidate' \in removable_paths
             /\ removable_paths' = removable_paths \ {candidate'}]_vars
    /\ [](DensifierReturned => (added = num_walls_to_add \/ removable_paths = {}))

\* _add_additional_walls(2) has returned on a 3 x 3 grid with 2 walls kept,
\* one candidate rejected and candidates left untaken.
C16_Witness ==
    /\ pc = "convert_to_3d_walls"
    /\ grid_size = 3
    /\ num_walls_to_add = 2
    /\ added = 2
    /\ connected = TRUE
    /\ InnerWallsNow = CarvedInnerWalls + 2
    /\ Cardinality(removable_paths) =
          Cardinality(RemovablePaths(carved[1], carved[2], grid_size)) - 3

\* _add_additional_walls(2) has returned on a 2 x 2 grid after taking every
\* candidate and keeping one wall.
C16_WitnessExhausted ==
    /\ pc = "convert_to_3d_walls"
    /\ grid_size = 2
    /\ num_walls_to_add = 2
    /\ added = 1
    /\ removable_paths = {}
    /\ warned

\* The entry a candidate names, in the pair of matrices m.
EntryOf(m, cand) ==
    IF cand[1] = "h" THEN m[1][<<cand[2], cand[3]>>] ELSE m[2][<<cand[2], cand[3]>>]

\* A candidate names an interior position.
IsInterior(cand) ==
    IF cand[1] = "h"
    THEN <<cand[2], cand[3]>> \in DOMAIN horizontal_walls \ BoundaryHorizontal(grid_size)
    ELSE <<cand[2], cand[3]>> \in DOMAIN vertical_walls \ BoundaryVertical(grid_size)

\* The positions at which two pairs of matrices differ, as candidates.
ChangedEntries(m, n) ==
    {<<"h", p[1], p[2]>> : p \in {q \in DOMAIN m[1] : m[1][q] # n[1][q]}}
    \cup {<<"v", p[1], p[2]>> : p \in {q \in DOMAIN m[2] : m[2][q] # n[2][q]}}

\* C17: the densifier sets only the entry of the candidate it takes, which
\* is an interior position that was False when the candidates were
\* enumerated and is False when taken; when _is_all_connected then returns
\* False that entry alone is set back to False and added is unchanged, so the
\* matrices are again those of before the iteration; and as long as no wall
\* has been kept the matrices between iterations are the enumerated ones.
C17_RejectedLeavesNoTrace ==
    /\ [][(pc = "for_removable_paths" /\ pc' = "is_all_connected") =>
             /\ IsInterior(candidate')
             /\ ~EntryOf(carved, candidate')
             /\ ~EntryOf(<<horizontal_walls, vertical_walls>>, candidate')
             /\ ChangedEntries(<<horizontal_walls, vertical_walls>>,
                               <<horizontal_walls', vertical_walls'>>) = {candidate'}]_vars
    /\ [][(pc = "is_all_connected" /\ connected' = FALSE) =>
             /\ ChangedEntries(<<horizontal_walls, vertical_walls>>,
                               <<horizontal_walls', vertical_walls'>>) = {candidate}
             /\ ~EntryOf(<<horizontal_walls', vertical_walls'>>, candidate)
             /\ added' = added]_vars
    /\ [][(pc = "is_all_connected" /\ connected' = TRUE) =>
             /\ UNCHANGED <<horizontal_walls, vertical_walls>>
             /\ added' = added + 1]_vars
    /\ []((pc = "for_removable_paths" /\ added = 0) =>
             <<horizontal_walls, vertical_walls>> = carved)

\* On a 3 x 3 grid the densifier is back at the head of its loop after at
\* least two candidates were taken and the last was rejected, with
\* candidates still to take and the matrices as enumerated.
C17_Witness ==
    /\ pc = "for_removable_paths"
    /\ grid_size = 3
    /\ Cardinality(removable_paths) \in 1..6
    /\ connected = FALSE
    /\ added = 0
    /\ <<horizontal_walls, vertical_walls>> = carved

\* C18: _add_additional_walls is running only in runs whose interior wall
\* count after carving is below min_walls, and its argument is then their
\* difference, which is positive; in a run with min_walls at most that count
\* the densifier is never called (nothing is enumerated, tried, checked or
\* warned about), the matrices stay the post-carving ones, and the list
\* returned is their projection.
C18_DensifierOnlyWhenNeeded ==
    /\ pc \in {"add_additional_walls", "for_removable_paths", "is_all_connected"} =>
          /\ CarvedInnerWalls < min_walls
          /\ num_walls_to_add = min_walls - CarvedInnerWalls
          /\ num_walls_to_add > 0
    /\ (WallsFinal /\ min_walls <= CarvedInnerWalls) =>
          /\ <<horizontal_walls, vertical_walls>> = carved
          /\ num_walls_to_add = 0 /\ removable_paths = {} /\ candidate = None
          /\ added = 0 /\ connected = None /\ ~warned
          /\ GenerateMazeReturned =>
                walls = ConvertTo3dWalls(carved[1], carved[2], grid_size, cell_size)

\* generate_maze has returned for a 3 x 3 grid whose 4 interior walls after
\* carving are exactly the min_walls asked for.
C18_Witness ==
    /\ pc = "save_to_sdf"
    /\ grid_size = 3
    /\ min_walls = 4
    /\ current_inner_walls = 4
    /\ Len(walls) = 16

\* _add_additional_walls is running on a 3 x 3 grid with K = 1.
C18_WitnessInvoked ==
    /\ pc = "for_removable_paths"
    /\ grid_size = 3
    /\ min_walls = 5
    /\ num_walls_to_add = 1

\* The run has so far followed the snaking path: its active calls are the
\* first Len(stack) cells of the path and no other cell has been entered.
OnSnakePath ==
    /\ Len(stack) >= 1
    /\ Cardinality(visited) = Len(stack)
    /\ stack = SnakeState(grid_size, Len(stack)).stack

\* During carving at most N*N calls of _dfs_carve are active, they are for
\* different cells, all of them entered, and once carving has returned every
\* cell has been entered.
C19_FramesBounded ==
    /\ Len(stack) <= grid_size * grid_size
    /\ Cardinality({<<stack[i].row, stack[i].col>> : i \in 1..Len(stack)}) = Len(stack)
    /\ {<<stack[i].row, stack[i].col>> : i \in 1..Len(stack)} \subseteq visited
    /\ CarvingReturned => visited = Cells(grid_size)

\* Every call of _dfs_carve enters a cell no call has entered before.
C19_EnteredOnce ==
    [][Len(stack') > Len(stack) =>
          /\ Len(stack') = Len(stack) + 1
          /\ <<stack'[Len(stack')].row, stack'[Len(stack')].col>> \notin visited
          /\ visited' = visited \cup {<<stack'[Len(stack')].row, stack'[Len(stack')].col>>}]_vars

\* C19 as stated: the active calls of _dfs_carve never exceed N*N and are
\* for different cells, and the draws that follow the snaking path take the
\* depth to N*N: a run that has followed the path so far is still carving,
\* so that its next call, if a cell is left, makes the path one cell longer.
C19_SnakeReachesFullDepth ==
    /\ C19_FramesBounded
    /\ OnSnakePath => pc = "dfs_carve"

\* C20: in every run of generate_maze every connectivity check of the
\* densifier returns False and no wall is kept; the final matrices are the
\* post-carving ones, with exactly (N-1)*(N-1) interior walls whatever
\* min_walls is; and the warning is printed exactly when
\* min_walls > (N-1)*(N-1).
C20_DensifierKeepsNothing ==
    /\ [][pc = "is_all_connected" => (connected' = FALSE /\ added' = 0)]_vars
    /\ [](CarvingReturned =>
             /\ added = 0
             /\ CarvedInnerWalls = (grid_size - 1) * (grid_size - 1))
    /\ [](WallsFinal =>
             /\ <<horizontal_walls, vertical_walls>> = carved
             /\ InnerWallsNow = (grid_size - 1) * (grid_size - 1)
             /\ warned <=> (min_walls > (grid_size - 1) * (grid_size - 1)))

\* A run on a 3 x 3 grid with min_walls = 5 has ended: all 8 candidates were
\* taken and rejected, 4 interior walls stand, the warning was printed.
C20_Witness ==
    /\ pc = "done"
    /\ grid_size = 3
    /\ min_walls = 5
    /\ removable_paths = {}
    /\ connected = FALSE
    /\ added = 0
    /\ warned
    /\ summary.inner_walls = 4

====
